---- MODULE Spec2Model ----
(***************************************************************************)
(* Heading estimation and smoothing core of compass-web.                   *)
(*                                                                         *)
(* Degrees are fixed-point: a JavaScript number on the grid is the integer *)
(* d * Scale, and arithmetic on grid values is exact, except that the      *)
(* product with the smoothing gain is rounded to the nearest grid point.   *)
(* Rounding of doubles is kept where it changes an outcome: a nonzero      *)
(* number too small to change a sum is a value of its own.  The IEEE       *)
(* special values (NaN, +Infinity, -Infinity) and the non-number values    *)
(* (null, undefined) are kept apart from the finite numbers, with the      *)
(* propagation rules of the language.                                      *)
(***************************************************************************)
EXTENDS Integers, Sequences, FiniteSets, TLC

\* ------------------------------------------------------------------ bounds
\* grid points per degree
Scale == 100
\* pure-function inputs range over -MaxTurns .. MaxTurns full turns
MaxTurns == 2

\* ------------------------------------------------------- JavaScript values
\* A number is a grid value (v hundredths of a degree at Scale 100), a "tiny"
\* number, NaN or an infinity.  A tiny number is a nonzero double of magnitude
\* below 1e-20, v its sign: adding it to a nonzero grid value rounds to that
\* grid value, which is where IEEE arithmetic departs from exact arithmetic.
Num(n) == [t |-> "num", v |-> n]
PosTiny == [t |-> "tiny", v |-> 1]
NegTiny == [t |-> "tiny", v |-> -1]
NaN == [t |-> "nan", v |-> 0]
PosInf == [t |-> "inf", v |-> 1]
NegInf == [t |-> "inf", v |-> -1]
Null == [t |-> "null", v |-> 0]
\* a double next to the grid value n, above it (s = 1) or below it (s = -1), so
\* close that adding 360 rounds the difference away
Near(n, s) == [t |-> "near", v |-> n, s |-> s]

Deg(n) == n * Scale

\* typeof x === "number"
IsNumberType(x) == x.t # "null"
\* Number.isNaN(x)
IsNaN(x) == x.t = "nan"
\* Number.isFinite(x)
IsFinite(x) == x.t \in {"num", "tiny", "near"}
IsGrid(x) == x.t = "num"
IsNear(x) == x.t = "near"
IsTiny(x) == x.t = "tiny"

Abs(n) == IF n < 0 THEN -n ELSE n

\* truncated remainder of integers: the sign follows the dividend
Rem(a, b) == IF a >= 0 THEN a % b ELSE -((-a) % b)

\* nearest integer to n / d, halves away from zero
RoundDiv(n, d) == IF n >= 0 THEN (2 * n + d) \div (2 * d) ELSE -((2 * (-n) + d) \div (2 * d))

\* a + b on numbers, rounded: a tiny term is absorbed by a nonzero grid value;
\* two tiny terms of opposite sign are taken to cancel
JsAdd(a, b) ==
  IF IsGrid(a) /\ IsGrid(b) THEN Num(a.v + b.v)
  ELSE IF IsNear(a) /\ IsGrid(b) THEN (IF b.v = 0 THEN a ELSE Num(a.v + b.v))
  ELSE IF IsGrid(a) /\ IsNear(b) THEN (IF a.v = 0 THEN b ELSE Num(a.v + b.v))
  ELSE IF IsNaN(a) \/ IsNaN(b) THEN NaN
  ELSE IF IsTiny(a) /\ IsTiny(b) THEN (IF a.v = b.v THEN a ELSE Num(0))
  ELSE IF IsTiny(a) THEN (IF b = Num(0) THEN a ELSE b)
  ELSE IF IsTiny(b) THEN (IF a = Num(0) THEN b ELSE a)
  ELSE IF IsGrid(a) THEN b
  ELSE IF IsGrid(b) THEN a
  ELSE IF a.v = b.v THEN a ELSE NaN

\* -a on numbers
JsNeg(a) ==
  IF IsGrid(a) THEN Num(-a.v)
  ELSE IF IsNaN(a) THEN NaN
  ELSE [t |-> a.t, v |-> -a.v]

\* a - b on numbers
JsSub(a, b) == JsAdd(a, JsNeg(b))

\* a % 360 on numbers: exact, the sign follows the dividend
JsRem360(a) ==
  IF IsGrid(a) THEN Num(Rem(a.v, Deg(360)))
  ELSE IF IsNear(a) /\ Abs(a.v) < Deg(360) THEN a
  ELSE IF IsTiny(a) THEN a
  ELSE NaN

\* a < k and a > k for a grid value k; every comparison with NaN is false
JsLt(a, k) ==
  IF IsGrid(a) THEN a.v < k
  ELSE IF IsNear(a) THEN (a.v < k \/ (a.v = k /\ a.s < 0))
  ELSE IF IsTiny(a) THEN (0 < k \/ (k = 0 /\ a.v < 0))
  ELSE (a.t = "inf" /\ a.v < 0)
JsGt(a, k) ==
  IF IsGrid(a) THEN a.v > k
  ELSE IF IsNear(a) THEN (a.v > k \/ (a.v = k /\ a.s > 0))
  ELSE IF IsTiny(a) THEN (0 > k \/ (k = 0 /\ a.v > 0))
  ELSE (a.t = "inf" /\ a.v > 0)

\* Math.abs(a)
JsAbs(a) ==
  IF IsGrid(a) THEN Num(Abs(a.v))
  ELSE IF IsTiny(a) THEN PosTiny
  ELSE IF IsNaN(a) THEN NaN ELSE PosInf

\* a * 1.15: a gain above 1
JsMulSmoothingAboveOne(a) ==
  IF IsGrid(a) THEN Num(RoundDiv(115 * a.v, 100)) ELSE a

\* a * 0.15
JsMulSmoothing(a) ==
  IF IsGrid(a) THEN Num(RoundDiv(15 * a.v, 100)) ELSE a

\* ------------------------------------------------------------- AngleMath
\* normalize without its "if (d < 0) d += 360"
normalizeNoShift(deg) ==
  IF ~IsNumberType(deg) \/ IsNaN(deg) THEN Null ELSE JsRem360(deg)

normalize(deg) ==
  IF ~IsNumberType(deg) \/ IsNaN(deg) THEN Null
  ELSE LET d == JsRem360(deg)
       IN IF JsLt(d, 0) THEN JsAdd(d, Num(Deg(360))) ELSE d

\* HeadingManager.normalizeDegrees of the iOS app, on Double
normalizeDegrees(deg) ==
  LET d == JsRem360(deg)
  IN IF JsLt(d, 0) THEN JsAdd(d, Num(Deg(360))) ELSE d

\* shortestAngleDelta folding at 0 instead of -180
shortestAngleDeltaFoldAtZero(from, to) ==
  LET diff == JsRem360(JsSub(to, from))
      diff1 == IF JsLt(diff, 0) THEN JsAdd(diff, Num(Deg(360))) ELSE diff
  IN IF JsGt(diff1, Deg(180)) THEN JsSub(diff1, Num(Deg(360))) ELSE diff1

shortestAngleDelta(from, to) ==
  LET diff == JsRem360(JsSub(to, from))
      diff1 == IF JsLt(diff, Deg(-180)) THEN JsAdd(diff, Num(Deg(360))) ELSE diff
  IN IF JsGt(diff1, Deg(180)) THEN JsSub(diff1, Num(Deg(360))) ELSE diff1

\* ------------------------------------------------ trigonometry of the estimator
\* A value of the trigonometric part is a sign and a magnitude class:
\* 0 an exact zero, 1 a magnitude below every grid step (the double nearest to
\* cos(pi/2) is 6.1e-17, not 0), 2 a magnitude of order one.  The signs are the
\* signs IEEE arithmetic gives, because Math.atan2 tells +0 from -0.
Tv(s, m) == [s |-> s, m |-> m]

\* Math.cos and Math.sin of a quarter-turn angle a (grid degrees) times degtorad
Cos(a) ==
  IF a = Deg(0) THEN Tv(1, 2)
  ELSE IF a = Deg(90) \/ a = Deg(-90) THEN Tv(1, 1)
  ELSE IF a = Deg(180) THEN Tv(-1, 2)
  ELSE Tv(-1, 1)

Sin(a) ==
  IF a = Deg(0) THEN Tv(1, 0)
  ELSE IF a = Deg(90) THEN Tv(1, 2)
  ELSE IF a = Deg(180) THEN Tv(1, 1)
  ELSE Tv(-1, 2)

TvNeg(a) == Tv(-a.s, a.m)

TvMul(a, b) ==
  Tv(a.s * b.s, IF a.m = 0 \/ b.m = 0 THEN 0 ELSE IF a.m < b.m THEN a.m ELSE b.m)

\* the larger magnitude class absorbs the smaller; two zeros of opposite sign
\* add to +0, and x - x is +0
TvAdd(a, b) ==
  IF a.m > b.m THEN a
  ELSE IF b.m > a.m THEN b
  ELSE IF a.s = b.s THEN a
  ELSE IF a.m = 1 THEN a
  ELSE Tv(1, 0)

TvSub(a, b) == TvAdd(a, TvNeg(b))

\* Math.atan2(y, x) followed by "if (heading < 0) heading += 2 * PI" and the
\* conversion to degrees: the result lies in [0, 360], 360 included
Atan2Heading(y, x) ==
  IF y.m > x.m THEN (IF y.s > 0 THEN Deg(90) ELSE Deg(270))
  ELSE IF x.m > y.m THEN
    (IF x.s < 0 THEN Deg(180)
     ELSE IF y.m = 1 /\ y.s < 0 THEN Deg(360)
     ELSE Deg(0))
  ELSE IF y.m = 0 THEN (IF x.s > 0 THEN Deg(0) ELSE Deg(180))
  ELSE IF y.s > 0 THEN (IF x.s > 0 THEN Deg(45) ELSE Deg(135))
  ELSE (IF x.s > 0 THEN Deg(315) ELSE Deg(225))

\* ------------------------------------------------------- HeadingEstimator
\* an orientation event as the handler reads it
Sample(w, a, b, g) == [webkitCompassHeading |-> w, alpha |-> a, beta |-> b, gamma |-> g]

computeHeadingFromEuler(ev) ==
  IF \/ ~IsNumberType(ev.alpha) \/ ~IsNumberType(ev.beta) \/ ~IsNumberType(ev.gamma)
     \/ ~IsFinite(ev.alpha) \/ ~IsFinite(ev.beta) \/ ~IsFinite(ev.gamma)
  THEN Null
  ELSE LET cX == Cos(ev.beta.v)
           cY == Cos(ev.gamma.v)
           cZ == Cos(ev.alpha.v)
           sX == Sin(ev.beta.v)
           sY == Sin(ev.gamma.v)
           sZ == Sin(ev.alpha.v)
           Vx == TvSub(TvMul(TvNeg(cZ), sY), TvMul(TvMul(sZ, sX), cY))
           Vy == TvAdd(TvMul(TvNeg(sZ), sY), TvMul(TvMul(cZ, sX), cY))
       IN Num(Atan2Heading(Vx, Vy))

hasWebkit(ev) == IsNumberType(ev.webkitCompassHeading) /\ IsFinite(ev.webkitCompassHeading)

\* the handler returns before it reaches normalize
HandlerReturnsEarly(ios, ev) == ios /\ ~hasWebkit(ev)

\* a handler that takes the Euler angles before the native heading
HandlerHdgEulerFirst(ios, ev) ==
  IF ~ios /\ IsNumberType(ev.alpha) /\ IsFinite(ev.alpha) THEN
    LET compensated == computeHeadingFromEuler(ev)
    IN IF compensated # Null THEN compensated ELSE JsSub(Num(Deg(360)), ev.alpha)
  ELSE IF hasWebkit(ev) THEN ev.webkitCompassHeading
  ELSE Null

\* a handler whose fallback is alpha itself
HandlerHdgAlphaFallback(ios, ev) ==
  IF hasWebkit(ev) THEN ev.webkitCompassHeading
  ELSE IF ~ios /\ IsNumberType(ev.alpha) /\ IsFinite(ev.alpha) THEN
    LET compensated == computeHeadingFromEuler(ev)
    IN IF compensated # Null THEN compensated ELSE ev.alpha
  ELSE Null

\* the value of hdg when the handler reaches normalize
HandlerHdg(ios, ev) ==
  IF hasWebkit(ev) THEN ev.webkitCompassHeading
  ELSE IF ~ios /\ IsNumberType(ev.alpha) /\ IsFinite(ev.alpha) THEN
    LET compensated == computeHeadingFromEuler(ev)
    IN IF compensated # Null THEN compensated ELSE JsSub(Num(Deg(360)), ev.alpha)
  ELSE Null

\* a handler without the early return of the iOS branch
HandlerTargetNoReturn(ios, ev, old) ==
  LET n == normalize(HandlerHdg(FALSE, ev))
  IN IF n # Null THEN n ELSE old

\* a handler that falls back to 0 when it has no heading
HandlerTargetResetting(ios, ev, old) ==
  IF HandlerReturnsEarly(ios, ev) THEN Num(0)
  ELSE LET n == normalize(HandlerHdg(ios, ev))
       IN IF n # Null THEN n ELSE Num(0)

\* targetHeadingRef.current after the handler has run on ev
HandlerTarget(ios, ev, old) ==
  IF HandlerReturnsEarly(ios, ev) THEN old
  ELSE LET n == normalize(HandlerHdg(ios, ev))
       IN IF n # Null THEN n ELSE old

\* preferWebkitRef.current after the handler has run on ev
HandlerPrefer(ios, ev, old) == IF ios /\ hasWebkit(ev) THEN TRUE ELSE old

\* -------------------------------------------------------- HeadingSmoother
\* Math.abs(diff) > num / 100
AbsAbove(diff, num) ==
  IF IsGrid(diff) THEN Abs(diff.v) * 100 > num * Scale
  ELSE IF IsTiny(diff) THEN num = 0
  ELSE diff.t = "inf"

\* animate's target: normalize(targetHeadingRef.current + offsetDeg) ?? 0
AnimateTarget(targetRef, offset) ==
  LET t0 == normalize(JsAdd(targetRef, offset))
  IN IF t0 # Null THEN t0 ELSE Num(0)

\* animate without its "snap when close" branch
AnimateHeadingNoSnap(diff, next, target, old) ==
  IF next # Null /\ AbsAbove(diff, 5) THEN next ELSE old

\* the value animate passes to setHeading from its constants diff, next and
\* target, or the old state when it passes none
AnimateHeading(diff, next, target, old) ==
  IF next # Null /\ AbsAbove(diff, 5) THEN next
  ELSE IF next # Null /\ AbsAbove(diff, 0) THEN target
  ELSE old

\* ------------------------------------------------------------------ state
VARIABLES
  platform,          \* what the browser offers: isIOS(), the two requestPermission functions
  phase,             \* "rendered" (first render done), "mounted" (effects ran), "unmounted"
  sensorStatus,      \* useState("idle")
  heading,           \* useState(0): the displayed heading
  headingRef,        \* useRef(0): copy of heading, written by its own effect
  targetHeadingRef,  \* useRef(0)
  preferWebkitRef,   \* useRef(false)
  offsetDeg,         \* the offset the animate closure holds
  listeners,         \* the listeners array of each render's closures
  registered,        \* the capture listeners on window: <<event type, handler>>
  nextHandler,       \* number of handler closures created so far
  onceAbs,           \* one-time deviceorientationabsolute listeners added by onEnable
  pendOrient,        \* onEnable calls awaiting DeviceOrientationEvent.requestPermission()
  pendMotion,        \* onEnable calls awaiting DeviceMotionEvent.requestPermission()
  clicks,            \* presses of the Enable button so far
  rafRef,            \* useRef(0): last handle returned by requestAnimationFrame
  rafQueue,          \* handles of the callbacks the browser still has to run
  rafNext,           \* last handle the browser has issued
  nativeSeen,        \* history: the handler has processed a finite native heading
  arg1, arg2, ret, op, \* a pure function's arguments, result and name
  currentBig,        \* useState(null): the big label at the top index, 0 for null
  currentSmall,      \* useState(null): the small label at the top index, 0 for null
  showSmall,         \* useState(false): whether the sub-labels are drawn
  drawnSub,          \* the canvas: the sub-labels last drawn, per big sector, <<>> for none
  stops,             \* calls of stopSensors made so far
  key,               \* the meaning panel: the key last looked up, "" before the first lookup
  meaning,           \* the meaning panel: the text it shows
  borders,           \* the canvas: the radial lines last drawn, one per slice, <<>> for none
  offsetState        \* useState: offsetDeg of the latest render (part_000 has an input for it)

vars == <<platform, phase, sensorStatus, heading, headingRef, targetHeadingRef,
          preferWebkitRef, offsetDeg, listeners, registered, nextHandler, onceAbs,
          pendOrient, pendMotion, clicks, rafRef, rafQueue, rafNext, nativeSeen,
          arg1, arg2, ret, op, currentBig, currentSmall, showSmall, drawnSub, stops, key, meaning, borders, offsetState>>

compVars == <<platform, phase, sensorStatus, heading, headingRef, targetHeadingRef,
              preferWebkitRef, offsetDeg, listeners, registered, nextHandler, onceAbs,
              pendOrient, pendMotion, clicks, rafRef, rafQueue, rafNext, nativeSeen>>

pureVars == <<arg1, arg2, ret, op>>

projVars == <<currentBig, currentSmall, showSmall, drawnSub, key, meaning, borders>>

stopVars == <<stops>>

calibVars == <<offsetState>>

\* calls of stopSensors a teardown makes at most
MaxStops == 2

\* more bounds
MaxClicks == 2
MaxFrames == 2

Platform(ios, orient, motion) == [ios |-> ios, orientPerm |-> orient, motionPerm |-> motion]

\* iOS 13+, iOS 12, a browser without permission functions, and a non-iOS
\* browser that has DeviceOrientationEvent.requestPermission only
Platforms ==
  { Platform(TRUE, TRUE, TRUE), Platform(TRUE, FALSE, FALSE),
    Platform(FALSE, FALSE, FALSE), Platform(FALSE, TRUE, FALSE) }

\* values of localStorage "compassOffsetDeg" that pass Number.isFinite
Offsets == { Num(0), Num(Deg(-45)) }

\* the events the sensor source delivers
Samples ==
  { Sample(Num(Deg(200)), Num(Deg(90)), Num(0), Num(0)),
    Sample(Num(Deg(-90)), Null, Null, Null),
    Sample(Num(Deg(725)), Null, Null, Null),
    Sample(NegTiny, Null, Null, Null),
    Sample(Null, Num(Deg(180)), Num(0), Num(0)),
    Sample(Null, Num(Deg(90)), Num(Deg(90)), Num(0)),
    Sample(Null, Num(0), Null, Null),
    Sample(Null, Num(Deg(30)), NaN, Num(0)),
    Sample(Null, Null, Null, Null),
    Sample(NaN, PosInf, Num(0), Num(0)),
    Sample(PosInf, Num(0), Num(0), Num(Deg(90))) }

EventTypes == { "deviceorientationabsolute", "deviceorientation" }

isIOS == platform.ios

Init ==
  /\ platform \in Platforms
  /\ phase = "rendered"
  /\ sensorStatus = "idle"
  /\ heading = Num(0)
  /\ headingRef = Num(0)
  /\ targetHeadingRef = Num(0)
  /\ preferWebkitRef = FALSE
  /\ offsetDeg \in Offsets
  /\ listeners = [r \in {"first", "later"} |-> <<>>]
  /\ registered = {}
  /\ nextHandler = 0
  /\ onceAbs = 0
  /\ pendOrient = 0
  /\ pendMotion = 0
  /\ clicks = 0
  /\ rafRef = 0
  /\ rafQueue = {}
  /\ rafNext = 0
  /\ nativeSeen = FALSE
  /\ arg1 = Null /\ arg2 = Null /\ ret = Null /\ op = "none"
  /\ currentBig = 0 /\ currentSmall = 0
  /\ showSmall = FALSE /\ drawnSub = <<>>
  /\ stops = 0
  /\ key = "" /\ meaning = ""
  /\ borders = <<>>
  /\ offsetState = offsetDeg

\* ------------------------------------------------------------ sensors
\* Every render declares a new listeners array; the closures of one render
\* share it.  "first" is the array of the render whose effects run at mount,
\* "later" stands for the arrays of the renders after it, which only the
\* startSensors of those renders touches.
ListenersOf(render) == render

SeqRange(q) == { q[i] : i \in 1..Len(q) }

\* startSensors as called from the closures of the given render; it returns true
startSensors(render) ==
  LET handler == nextHandler + 1
  IN /\ nextHandler' = handler
     /\ registered' = registered \cup { <<"deviceorientationabsolute", handler>>,
                                        <<"deviceorientation", handler>> }
     /\ listeners' = [listeners EXCEPT ![ListenersOf(render)] =
                        Append(Append(@, <<"deviceorientationabsolute", handler>>),
                               <<"deviceorientation", handler>>)]

\* the listeners stopSensors of the given render removes from window
StopTargets(render) == SeqRange(listeners[ListenersOf(render)])

\* setSensorStatus: React drops the update of an unmounted component
SetSensorStatus(st) == sensorStatus' = IF phase = "unmounted" THEN sensorStatus ELSE st

\* a cleanup that cancels the handle the effect itself got when it ran
CleanupHandleOfEffect == IF rafNext > 0 THEN 1 ELSE 0

\* the handle the cleanup of the animate effect passes to cancelAnimationFrame
CleanupHandle == rafRef

\* the effects of the first commit: the sensor effect and the animate effect
Mount ==
  /\ phase = "rendered"
  /\ phase' = "mounted"
  /\ IF platform.orientPerm
     THEN /\ sensorStatus' = "need-permission"
          /\ UNCHANGED <<listeners, registered, nextHandler>>
     ELSE /\ startSensors("first")
          /\ sensorStatus' = "active"
  /\ rafNext' = rafNext + 1
  /\ rafRef' = rafNext + 1
  /\ rafQueue' = rafQueue \cup {rafNext + 1}
  /\ UNCHANGED <<platform, heading, headingRef, targetHeadingRef, preferWebkitRef,
                 offsetDeg, onceAbs, pendOrient, pendMotion, clicks, nativeSeen>>
  /\ UNCHANGED pureVars
  /\ UNCHANGED projVars
  /\ UNCHANGED stopVars
  /\ UNCHANGED calibVars

\* onEnable from its last await to its end
EnableFinish ==
  /\ onceAbs' = IF platform.orientPerm THEN onceAbs ELSE onceAbs + 1
  /\ startSensors("later")
  /\ SetSensorStatus("active")

\* the Enable button, rendered while sensorStatus is not "active": onEnable up
\* to its first await
OnEnable ==
  /\ phase = "mounted"
  /\ sensorStatus # "active"
  /\ clicks < MaxClicks
  /\ clicks' = clicks + 1
  /\ IF platform.orientPerm
     THEN /\ pendOrient' = pendOrient + 1
          /\ UNCHANGED <<pendMotion, onceAbs, listeners, registered, nextHandler, sensorStatus>>
     ELSE IF platform.motionPerm
     THEN /\ pendMotion' = pendMotion + 1
          /\ UNCHANGED <<pendOrient, onceAbs, listeners, registered, nextHandler, sensorStatus>>
     ELSE /\ EnableFinish
          /\ UNCHANGED <<pendOrient, pendMotion>>
  /\ UNCHANGED <<platform, phase, heading, headingRef, targetHeadingRef, preferWebkitRef,
                 offsetDeg, rafRef, rafQueue, rafNext, nativeSeen>>
  /\ UNCHANGED pureVars
  /\ UNCHANGED projVars
  /\ UNCHANGED stopVars
  /\ UNCHANGED calibVars

\* DeviceOrientationEvent.requestPermission() settles for one waiting onEnable
OrientResolved(resp) ==
  /\ pendOrient > 0
  /\ pendOrient' = pendOrient - 1
  /\ IF resp = "granted"
     THEN IF platform.motionPerm
          THEN /\ pendMotion' = pendMotion + 1
               /\ UNCHANGED <<onceAbs, listeners, registered, nextHandler, sensorStatus>>
          ELSE /\ EnableFinish
               /\ UNCHANGED pendMotion
     ELSE /\ SetSensorStatus(IF resp = "denied" THEN "unavailable" ELSE "error")
          /\ UNCHANGED <<pendMotion, onceAbs, listeners, registered, nextHandler>>
  /\ UNCHANGED <<platform, phase, heading, headingRef, targetHeadingRef, preferWebkitRef,
                 offsetDeg, clicks, rafRef, rafQueue, rafNext, nativeSeen>>
  /\ UNCHANGED pureVars
  /\ UNCHANGED projVars
  /\ UNCHANGED stopVars
  /\ UNCHANGED calibVars

\* DeviceMotionEvent.requestPermission() settles; its outcome is ignored
MotionResolved ==
  /\ pendMotion > 0
  /\ pendMotion' = pendMotion - 1
  /\ EnableFinish
  /\ UNCHANGED <<platform, phase, heading, headingRef, targetHeadingRef, preferWebkitRef,
                 offsetDeg, pendOrient, clicks, rafRef, rafQueue, rafNext, nativeSeen>>
  /\ UNCHANGED pureVars
  /\ UNCHANGED projVars
  /\ UNCHANGED stopVars
  /\ UNCHANGED calibVars

\* window dispatches an orientation event of type ty to its listeners
SensorEvent(ty, ev) ==
  LET listening == \E r \in registered : r[1] = ty
      once == onceAbs > 0 /\ ty = "deviceorientationabsolute"
      prefer1 == IF once /\ IsNumberType(ev.webkitCompassHeading) THEN TRUE ELSE preferWebkitRef
  IN /\ listening \/ once
     /\ targetHeadingRef' = IF listening THEN HandlerTarget(isIOS, ev, targetHeadingRef)
                            ELSE targetHeadingRef
     /\ preferWebkitRef' = IF listening THEN HandlerPrefer(isIOS, ev, prefer1) ELSE prefer1
     /\ onceAbs' = IF ty = "deviceorientationabsolute" THEN 0 ELSE onceAbs
     /\ nativeSeen' = (nativeSeen \/ (listening /\ hasWebkit(ev)))
     /\ UNCHANGED <<platform, phase, sensorStatus, heading, headingRef, offsetDeg, listeners,
                    registered, nextHandler, pendOrient, pendMotion, clicks, rafRef, rafQueue,
                    rafNext>>
     /\ UNCHANGED pureVars
     /\ UNCHANGED projVars
     /\ UNCHANGED stopVars
     /\ UNCHANGED calibVars

\* a frame that leaves its own callback pending next to the successor
FrameKeepingCallback(h, nh) ==
  /\ h \in rafQueue
  /\ \E target \in {AnimateTarget(targetHeadingRef, offsetDeg)} :
     \E diff \in {shortestAngleDelta(headingRef, target)} :
     \E next \in {normalize(JsAdd(headingRef, JsMulSmoothing(diff)))} :
       heading' = IF phase = "unmounted" THEN heading
                  ELSE AnimateHeading(diff, next, target, heading)
  /\ rafNext' = nh
  /\ rafRef' = nh
  /\ rafQueue' = rafQueue \cup {nh}
  /\ UNCHANGED <<platform, phase, sensorStatus, headingRef, targetHeadingRef, preferWebkitRef,
                 offsetDeg, listeners, registered, nextHandler, onceAbs, pendOrient,
                 pendMotion, clicks, nativeSeen>>
  /\ UNCHANGED pureVars
  /\ UNCHANGED projVars
  /\ UNCHANGED stopVars
  /\ UNCHANGED calibVars

\* animate, run as the callback with handle h; requestAnimationFrame returns nh
Frame(h, nh) ==
  /\ h \in rafQueue
  /\ \E target \in {AnimateTarget(targetHeadingRef, offsetDeg)} :
     \E diff \in {shortestAngleDelta(headingRef, target)} :
     \E next \in {normalize(JsAdd(headingRef, JsMulSmoothing(diff)))} :
       heading' = IF phase = "unmounted" THEN heading
                  ELSE AnimateHeading(diff, next, target, heading)
  /\ rafNext' = nh
  /\ rafRef' = nh
  /\ rafQueue' = (rafQueue \ {h}) \cup {nh}
  /\ UNCHANGED <<platform, phase, sensorStatus, headingRef, targetHeadingRef, preferWebkitRef,
                 offsetDeg, listeners, registered, nextHandler, onceAbs, pendOrient,
                 pendMotion, clicks, nativeSeen>>
  /\ UNCHANGED pureVars
  /\ UNCHANGED projVars
  /\ UNCHANGED stopVars
  /\ UNCHANGED calibVars

\* the browser runs the pending animation-frame callback h
Tick(h) ==
  /\ rafNext <= MaxFrames
  /\ Frame(h, rafNext + 1)

\* an effect on [heading] that copies the displayed heading into the target too
SyncHeadingRefAndTarget ==
  /\ phase = "mounted"
  /\ headingRef # heading
  /\ headingRef' = heading
  /\ targetHeadingRef' = heading
  /\ UNCHANGED <<platform, phase, sensorStatus, heading, preferWebkitRef,
                 offsetDeg, listeners, registered, nextHandler, onceAbs, pendOrient,
                 pendMotion, clicks, rafRef, rafQueue, rafNext, nativeSeen>>
  /\ UNCHANGED pureVars
  /\ UNCHANGED projVars
  /\ UNCHANGED stopVars
  /\ UNCHANGED calibVars

\* the effect on [heading]: headingRef.current = heading
SyncHeadingRef ==
  /\ phase = "mounted"
  /\ headingRef # heading
  /\ headingRef' = heading
  /\ UNCHANGED <<platform, phase, sensorStatus, heading, targetHeadingRef, preferWebkitRef,
                 offsetDeg, listeners, registered, nextHandler, onceAbs, pendOrient,
                 pendMotion, clicks, rafRef, rafQueue, rafNext, nativeSeen>>
  /\ UNCHANGED pureVars
  /\ UNCHANGED projVars
  /\ UNCHANGED stopVars
  /\ UNCHANGED calibVars

\* unmount: the cleanups of the sensor effect (stopSensors of the first render)
\* and of the animate effect
Unmount ==
  /\ phase = "mounted"
  /\ phase' = "unmounted"
  /\ registered' = registered \ StopTargets("first")
  /\ listeners' = [listeners EXCEPT ![ListenersOf("first")] = <<>>]
  /\ rafQueue' = rafQueue \ {CleanupHandle}
  /\ UNCHANGED <<platform, sensorStatus, heading, headingRef, targetHeadingRef,
                 preferWebkitRef, offsetDeg, nextHandler, onceAbs, pendOrient, pendMotion,
                 clicks, rafRef, rafNext, nativeSeen>>
  /\ stops' = stops + 1
  /\ UNCHANGED pureVars
  /\ UNCHANGED projVars
  /\ UNCHANGED calibVars

\* stopSensors of the first render called once more after the teardown
stopSensors ==
  /\ phase = "unmounted"
  /\ stops < MaxStops
  /\ stops' = stops + 1
  /\ registered' = registered \ StopTargets("first")
  /\ listeners' = [listeners EXCEPT ![ListenersOf("first")] = <<>>]
  /\ UNCHANGED <<platform, phase, sensorStatus, heading, headingRef, targetHeadingRef,
                 preferWebkitRef, offsetDeg, nextHandler, onceAbs, pendOrient, pendMotion,
                 clicks, rafRef, rafQueue, rafNext, nativeSeen>>
  /\ UNCHANGED pureVars
  /\ UNCHANGED projVars
  /\ UNCHANGED calibVars

Next ==
  \/ Mount
  \/ OnEnable
  \/ \E resp \in {"granted", "denied", "throw"} : OrientResolved(resp)
  \/ MotionResolved
  \/ \E ty \in EventTypes, ev \in Samples : SensorEvent(ty, ev)
  \/ \E h \in rafQueue : Tick(h)
  \/ SyncHeadingRef
  \/ Unmount

Spec == Init /\ [][Next]_vars

\* the component with a caller that repeats stopSensors after the teardown
StopNext ==
  \/ Next
  \/ stopSensors

StopSpec == Init /\ [][StopNext]_vars

\* the component on a platform that never delivers an orientation event
NoSourceNext ==
  \/ Mount
  \/ OnEnable
  \/ \E resp \in {"granted", "denied", "throw"} : OrientResolved(resp)
  \/ MotionResolved
  \/ \E h \in rafQueue : Tick(h)
  \/ SyncHeadingRef
  \/ Unmount
  \/ stopSensors

NoSourceSpec == Init /\ [][NoSourceNext]_vars

\* ------------------------------------------- the pure functions on their own
\* headings of [0, 360): every multiple of 45 degrees and its two neighbours
Probe == { h \in 0..(Deg(360) - 1) : h % Deg(45) \in {0, 1, Deg(45) - 1} }

FiniteInputs ==
  { Num(k * Deg(360) + r) : k \in (-MaxTurns)..MaxTurns, r \in Probe } \cup {PosTiny, NegTiny}
NonFiniteInputs == { Null, NaN, PosInf, NegInf }
HeadingInputs == { Num(r) : r \in Probe }

\* x is a number of [0, 360)
InRange(x) == (IsGrid(x) /\ 0 <= x.v /\ x.v < Deg(360)) \/ x = PosTiny

PureInit ==
  /\ platform = Platform(FALSE, FALSE, FALSE)
  /\ phase = "rendered"
  /\ sensorStatus = "idle"
  /\ heading = Num(0)
  /\ headingRef = Num(0)
  /\ targetHeadingRef = Num(0)
  /\ preferWebkitRef = FALSE
  /\ offsetDeg = Num(0)
  /\ listeners = [r \in {"first", "later"} |-> <<>>]
  /\ registered = {}
  /\ nextHandler = 0
  /\ onceAbs = 0
  /\ pendOrient = 0
  /\ pendMotion = 0
  /\ clicks = 0
  /\ rafRef = 0
  /\ rafQueue = {}
  /\ rafNext = 0
  /\ nativeSeen = FALSE
  /\ arg1 \in FiniteInputs \cup NonFiniteInputs
  /\ arg2 \in HeadingInputs \cup {PosTiny}
  /\ ret = Null
  /\ op = "none"
  /\ currentBig = 0 /\ currentSmall = 0
  /\ showSmall = FALSE /\ drawnSub = <<>>
  /\ stops = 0
  /\ key = "" /\ meaning = ""
  /\ borders = <<>>
  /\ offsetState = offsetDeg

ApplyNormalize ==
  /\ op = "none"
  /\ ret' = normalize(arg1)
  /\ op' = "normalize"
  /\ UNCHANGED <<arg1, arg2>>
  /\ UNCHANGED compVars
  /\ UNCHANGED projVars
  /\ UNCHANGED stopVars
  /\ UNCHANGED calibVars

\* the iOS function takes a Double
ApplyNormalizeDegrees ==
  /\ op = "none"
  /\ IsNumberType(arg1)
  /\ ret' = normalizeDegrees(arg1)
  /\ op' = "normalizeDegrees"
  /\ UNCHANGED <<arg1, arg2>>
  /\ UNCHANGED compVars
  /\ UNCHANGED projVars
  /\ UNCHANGED stopVars
  /\ UNCHANGED calibVars

ApplyShortestAngleDelta ==
  /\ op = "none"
  /\ IsFinite(arg1)
  /\ ret' = shortestAngleDelta(arg1, arg2)
  /\ op' = "shortestAngleDelta"
  /\ UNCHANGED <<arg1, arg2>>
  /\ UNCHANGED compVars
  /\ UNCHANGED projVars
  /\ UNCHANGED stopVars
  /\ UNCHANGED calibVars

\* normalize(from + shortestAngleDelta(from, to))
ApplyRoundTrip ==
  /\ op = "none"
  /\ IsFinite(arg1)
  /\ ret' = normalize(JsAdd(arg1, shortestAngleDelta(arg1, arg2)))
  /\ op' = "roundTrip"
  /\ UNCHANGED <<arg1, arg2>>
  /\ UNCHANGED compVars
  /\ UNCHANGED projVars
  /\ UNCHANGED stopVars
  /\ UNCHANGED calibVars

PureNext ==
  \/ ApplyNormalize
  \/ ApplyNormalizeDegrees
  \/ ApplyShortestAngleDelta
  \/ ApplyRoundTrip

PureSpec == PureInit /\ [][PureNext]_vars

\* --------------------------------------- the smoothing loop with a fixed target
\* targets the estimator can leave in targetHeadingRef
SmoothTargets == { Num(0), Num(Deg(170)), Num(Deg(360) - 1) }

SmoothInit ==
  /\ platform = Platform(FALSE, FALSE, FALSE)
  /\ phase = "mounted"
  /\ sensorStatus = "active"
  /\ heading \in HeadingInputs
  /\ headingRef = heading
  /\ targetHeadingRef \in SmoothTargets
  /\ preferWebkitRef = FALSE
  /\ offsetDeg \in Offsets
  /\ listeners = [r \in {"first", "later"} |-> <<>>]
  /\ registered = {}
  /\ nextHandler = 0
  /\ onceAbs = 0
  /\ pendOrient = 0
  /\ pendMotion = 0
  /\ clicks = 0
  /\ rafRef = 1
  /\ rafQueue = {1}
  /\ rafNext = 1
  /\ nativeSeen = FALSE
  /\ arg1 = Null /\ arg2 = Null /\ ret = Null /\ op = "none"
  /\ currentBig = 0 /\ currentSmall = 0
  /\ showSmall = FALSE /\ drawnSub = <<>>
  /\ stops = 0
  /\ key = "" /\ meaning = ""
  /\ borders = <<>>
  /\ offsetState = offsetDeg

\* one run of animate; requestAnimationFrame returns a handle other than the
\* one running, and only that much of the handle is followed here
SmoothTick == \E h \in rafQueue : Frame(h, 3 - h)

SmoothNext ==
  \/ SmoothTick
  \/ SyncHeadingRef

SmoothSpec == SmoothInit /\ [][SmoothNext]_vars

\* ------------------------------- the smoothing loop and the offset input
\* values typed into the offset input of part_000
OffsetInputs == { Num(0), Num(Deg(-45)), Num(Deg(90)), NaN }

\* an offset input whose value reaches the running loop as well
SetOffsetDegOfLoop(v) ==
  /\ phase = "mounted"
  /\ offsetState' = IF IsNaN(v) \/ v = Num(0) THEN Num(0) ELSE v
  /\ offsetDeg' = offsetState'
  /\ UNCHANGED <<platform, phase, sensorStatus, heading, headingRef, targetHeadingRef,
                 preferWebkitRef, listeners, registered, nextHandler, onceAbs,
                 pendOrient, pendMotion, clicks, rafRef, rafQueue, rafNext, nativeSeen>>
  /\ UNCHANGED pureVars
  /\ UNCHANGED projVars
  /\ UNCHANGED stopVars

\* onChange: setOffsetDeg(Number(e.target.value) || 0); the animate effect has
\* no dependencies, so its closure keeps the offsetDeg of the first render
SetOffsetDeg(v) ==
  /\ phase = "mounted"
  /\ offsetState' = IF IsNaN(v) \/ v = Num(0) THEN Num(0) ELSE v
  /\ UNCHANGED compVars
  /\ UNCHANGED pureVars
  /\ UNCHANGED projVars
  /\ UNCHANGED stopVars

CalibNext ==
  \/ SmoothTick
  \/ SyncHeadingRef
  \/ \E v \in OffsetInputs : SetOffsetDeg(v)

CalibSpec == SmoothInit /\ [][CalibNext]_vars

\* the browser keeps running the frame callback and React keeps running the
\* effect that follows a change of heading
FairSmoothSpec == SmoothSpec /\ WF_vars(SmoothTick) /\ WF_vars(SyncHeadingRef)

\* ------------------------------------------------------------ DialProjector
SEGMENTS == 64

\* The draw effect works in radians; here its angles are whole numbers of
\* sixteenths of a grid step, in which a slice and half a slice are exact.
FinePerStep == 16
\* Math.PI * 2
Turn == FinePerStep * Deg(360)
\* (heading * Math.PI) / 180
Rot(h) == FinePerStep * h
slice == Turn \div SEGMENTS
bigSlice == slice * (SEGMENTS \div 8)
topAngle == -(Turn \div 4)
startAngle(h) == -(Turn \div 4) + (-Rot(h))

wrapPi2(a) ==
  LET x == Rem(a, Turn)
      x1 == IF x < -(Turn \div 2) THEN x + Turn ELSE x
  IN IF x1 > Turn \div 2 THEN x1 - Turn ELSE x1

angDist(a, b) == Abs(wrapPi2(a - b))

bigLabels == <<6, 1, 2, 3, 4, 7, 5, 8>>
seq == <<6, 1, 2, 3, 4, 7, 5, 8>>
\* an indexOf that finds nothing before index 0
indexOfFirst(label) == 0

\* seq.indexOf(label), for a label of seq
indexOf(label) == CHOOSE i \in 0..7 : seq[i + 1] = label

\* distance of the middle of big sector b to the top index
BigDist(h, b) == angDist(startAngle(h) + b * bigSlice + bigSlice \div 2, topAngle)

\* the loop keeps the first sector of least distance ("if (d < best)"); at a
\* multiple of 45 degrees two sectors are equally near and the loop, in
\* doubles as well, keeps the first
currentBigIndex(h) ==
  CHOOSE b \in 0..7 :
    /\ \A c \in 0..7 : BigDist(h, b) <= BigDist(h, c)
    /\ \A c \in 0..(b - 1) : BigDist(h, c) > BigDist(h, b)

\* distance of the middle of sub-slice j of big sector b to the top index
SmallDist(h, b, j) ==
  angDist(startAngle(h) + b * bigSlice + j * slice + slice \div 2, topAngle)

\* the sub-slices the second loop can keep: the one of least distance; where
\* two are equally near the rounding of the doubles decides between them
currentSmallIndexes(h, b) ==
  { j \in 0..7 : \A k \in 0..7 : SmallDist(h, b, j) <= SmallDist(h, b, k) }

\* a sub-label read without the rotation to the sector's own label
currentSmallLabelUnrotated(b, j) == seq[j + 1]

currentSmallLabel(b, j) == seq[((indexOf(bigLabels[b + 1]) + j) % 8) + 1]

\* ((deg % 360) + 360) % 360
DoubleMod(deg) == JsRem360(JsAdd(JsRem360(deg), Num(Deg(360))))

bigLabelForDegree(deg) ==
  LET d == DoubleMod(deg)
  IN IF JsLt(d, Deg(45)) THEN 6
     ELSE IF JsLt(d, Deg(90)) THEN 1
     ELSE IF JsLt(d, Deg(135)) THEN 2
     ELSE IF JsLt(d, Deg(180)) THEN 3
     ELSE IF JsLt(d, Deg(225)) THEN 4
     ELSE IF JsLt(d, Deg(270)) THEN 7
     ELSE IF JsLt(d, Deg(315)) THEN 5
     ELSE 8

\* Math.floor(d / 45), Math.min(7, Math.floor(within / (45 / 8))) and the label;
\* 0 stands for undefined (d is NaN)
smallLabelForDegree(deg) ==
  LET d == DoubleMod(deg)
  IN IF ~IsGrid(d) THEN 0
     ELSE LET bigIndex == d.v \div Deg(45)
              within == d.v - bigIndex * Deg(45)
              q == Rot(within) \div slice
              subIndex == IF q > 7 THEN 7 ELSE q
              startLabel == seq[bigIndex + 1]
              startIdx == indexOf(startLabel)
          IN seq[((startIdx + subIndex) % 8) + 1]

\* headings next to a slice boundary inside a big sector, on either side
NearHeadings ==
  { Near(g, s) : g \in { x \in 1..(Deg(360) - 1) : Rot(x) % slice = 0 /\ x % Deg(45) # 0 },
                 s \in {-1, 1} }

\* headings the projector is run on: the whole degrees of [0, 360) and every
\* grid heading within one grid step of a slice boundary
ProjHeadings ==
  { Num(h) : h \in { g \in 0..(Deg(360) - 1) :
                       \/ g % Deg(1) = 0
                       \/ Rot(g) % slice <= FinePerStep
                       \/ Rot(g) % slice >= slice - FinePerStep } }

ProjInit ==
  /\ platform = Platform(FALSE, FALSE, FALSE)
  /\ phase = "mounted"
  /\ sensorStatus = "active"
  /\ heading \in ProjHeadings \cup NearHeadings
  /\ headingRef = heading
  /\ targetHeadingRef = heading
  /\ preferWebkitRef = FALSE
  /\ offsetDeg = Num(0)
  /\ listeners = [r \in {"first", "later"} |-> <<>>]
  /\ registered = {}
  /\ nextHandler = 0
  /\ onceAbs = 0
  /\ pendOrient = 0
  /\ pendMotion = 0
  /\ clicks = 0
  /\ rafRef = 1
  /\ rafQueue = {1}
  /\ rafNext = 1
  /\ nativeSeen = FALSE
  /\ arg1 = Null /\ arg2 = Null /\ ret = Null /\ op = "none"
  /\ currentBig = 0 /\ currentSmall = 0
  /\ showSmall \in BOOLEAN /\ drawnSub = <<>>
  /\ stops = 0
  /\ key = "" /\ meaning = ""
  /\ borders = <<>>
  /\ offsetState = offsetDeg

\* the sub-labels the draw effect writes into big sector b (0..7)
SubLabelsOfSector(b) ==
  LET sectionLabel == seq[b + 1]
      startIdx == indexOf(sectionLabel)
  IN [j \in 1..8 |-> seq[((startIdx + (j - 1)) % 8) + 1]]

\* the draw effect, as far as it draws sub-labels and sets currentBig and
\* currentSmall

\* ------------------------------------------------------------ MeaningPanel
\* the keys of the MEANINGS object literal, as written in the source
MeaningKeys ==
  {
    "1-1", "1-2", "1-3", "1-4", "1-5", "1-6", "1-7", "2-1", "2-2", "2-3", "2-4", "2-5",
    "2-6", "2-7", "3-1", "3-2", "3-3", "3-4", "3-5", "3-6", "3-7", "4-1", "4-2", "4-3",
    "4-4", "4-5", "4-6", "4-7", "5-1", "5-2", "5-3", "5-4", "5-5", "5-6", "5-7", "6-1",
    "6-2", "6-3", "6-4", "6-5", "6-6", "6-7", "7-1", "7-2", "7-3", "7-4", "7-5", "7-6",
    "7-7"
  }

\* each entry is a non-empty text; the prose is abstracted to a text per key
MEANINGS == [k \in MeaningKeys |-> "text of " \o k]

\* a property read of an object: undefined for an absent key, never a throw
Undefined == "undefined"
Lookup(table, k) == IF k \in DOMAIN table THEN table[k] ELSE Undefined

\* a key with the small label first
MeaningKeySwapped(big, small) == ToString(small) \o "-" \o ToString(big)

\* the template literal `${currentBig}-${currentSmall}`
MeaningKey(big, small) == ToString(big) \o "-" \o ToString(small)

\* meaning || ""
OrEmpty(m) == IF m = Undefined \/ m = "" THEN "" ELSE m

\* a line that is bold every fourth slice
IsBoldEveryFourth(i) == i % 4 = 0

\* i % 8 === 0: the radial line of slice i is drawn a second time, bold
IsBold(i) == i % 8 = 0

\* the radial line at a0 of slice i, and the far edge a1 of the slice
Border(h, i) ==
  LET a0 == startAngle(h) + i * slice
      a1 == a0 + slice
  IN [a0 |-> a0, a1 |-> a1, bold |-> IsBold(i)]

Draw ==
  /\ phase = "mounted"
  /\ IsGrid(heading) \/ IsNear(heading)
  /\ LET b == currentBigIndex(heading.v)
     IN /\ currentBig' = bigLabels[b + 1]
        /\ \E j \in currentSmallIndexes(heading.v, b) :
             currentSmall' = currentSmallLabel(b, j)
  /\ key' = IF sensorStatus = "active" THEN MeaningKey(currentBig', currentSmall') ELSE key
  /\ meaning' = IF sensorStatus = "active" THEN OrEmpty(Lookup(MEANINGS, key')) ELSE meaning
  /\ borders' = [n \in 1..SEGMENTS |-> Border(heading.v, n - 1)]
  /\ drawnSub' = IF showSmall THEN [b \in 1..8 |-> SubLabelsOfSector(b - 1)] ELSE <<>>
  /\ UNCHANGED showSmall
  /\ UNCHANGED compVars
  /\ UNCHANGED pureVars
  /\ UNCHANGED stopVars
  /\ UNCHANGED calibVars

ProjNext ==
  \/ Draw

ProjSpec == ProjInit /\ [][ProjNext]_vars

\* ------------------------------------------ the estimator with sensors running
\* the component once startSensors has registered its handler, from the mount
\* effect or from onEnable where a permission is needed, with any heading on
\* display
EstInit ==
  /\ platform \in Platforms
  /\ phase = "mounted"
  /\ sensorStatus = "active"
  /\ heading \in HeadingInputs
  /\ headingRef = heading
  /\ targetHeadingRef = Num(0)
  /\ preferWebkitRef = FALSE
  /\ offsetDeg \in Offsets
  /\ listeners = [r \in {"first", "later"} |->
                    IF (r = "later") = platform.orientPerm
                    THEN << <<"deviceorientationabsolute", 1>>, <<"deviceorientation", 1>> >>
                    ELSE <<>>]
  /\ registered = { <<"deviceorientationabsolute", 1>>, <<"deviceorientation", 1>> }
  /\ nextHandler = 1
  /\ onceAbs = 0
  /\ pendOrient = 0
  /\ pendMotion = 0
  /\ clicks = IF platform.orientPerm THEN 1 ELSE 0
  /\ rafRef = 1
  /\ rafQueue = {1}
  /\ rafNext = 1
  /\ nativeSeen = FALSE
  /\ arg1 = Null /\ arg2 = Null /\ ret = Null /\ op = "none"
  /\ currentBig = 0 /\ currentSmall = 0
  /\ showSmall = FALSE /\ drawnSub = <<>>
  /\ stops = 0
  /\ key = "" /\ meaning = ""
  /\ borders = <<>>
  /\ offsetState = offsetDeg

EstNext ==
  \/ \E ty \in EventTypes, ev \in Samples : SensorEvent(ty, ev)

EstSpec == EstInit /\ [][EstNext]_vars

\* ------------------------------------------------------------ AngleMath claims
\* C7 as stated: for from, to in [0,360), shortestAngleDelta(from, to) lies in
\* the half-open range (-180, 180]; -180 is never returned.
C7_DeltaInHalfOpenRange ==
  (op = "shortestAngleDelta" /\ InRange(arg1) /\ InRange(arg2)) =>
    (IsFinite(ret) /\ JsGt(ret, -Deg(180)) /\ ~JsGt(ret, Deg(180)))

\* C7 amended: for from, to in [0,360), shortestAngleDelta(from, to) lies in
\* the closed range [-180, 180]; it is +180 exactly when the difference
\* to - from, as computed, is 180 and -180 exactly when it is -180.
C7_DeltaInClosedRange ==
  (op = "shortestAngleDelta" /\ InRange(arg1) /\ InRange(arg2)) =>
    /\ IsFinite(ret)
    /\ ~JsLt(ret, -Deg(180)) /\ ~JsGt(ret, Deg(180))
    /\ (ret = Num(Deg(180))) <=> (JsSub(arg2, arg1) = Num(Deg(180)))
    /\ (ret = Num(-Deg(180))) <=> (JsSub(arg2, arg1) = Num(-Deg(180)))

\* shortestAngleDelta(180, 0) has returned -180
C7_Witness ==
  op = "shortestAngleDelta" /\ arg1 = Num(Deg(180)) /\ arg2 = Num(0) /\ ret = Num(-Deg(180))

\* two numbers that differ by no more than a rounding error
Close(a, b) == a = b \/ ({a, b} \subseteq {Num(0), PosTiny, NegTiny})

C9_NormalizeRangeAndCongruence ==
  (op \in {"normalize", "normalizeDegrees"} /\ IsFinite(arg1)) =>
    /\ InRange(ret)
    /\ IsGrid(arg1) => (IsGrid(ret) /\ (ret.v - arg1.v) % Deg(360) = 0)
    /\ IsTiny(arg1) => Close(ret, arg1)

\* C10 as stated: normalize returns null, never NaN and never a number, for
\* every input that is not a finite number.
C10_NullForNonFinite ==
  (op = "normalize" /\ ~IsFinite(arg1)) => ret = Null

\* ------------------------------------------------- stored headings, teardown
\* C1 as stated: after any sequence of samples and ticks, targetHeading and the
\* displayed heading are numbers in [0,360): never negative, never >= 360,
\* never NaN.
C1_HeadingsNormalized == InRange(targetHeadingRef) /\ InRange(heading)

\* C2 as stated: after teardown no handler registered by startSensors remains
\* registered, whichever way the sensors were started.
C2_NoHandlerAfterTeardown == phase = "unmounted" => registered = {}

\* C3: after the cleanup of the smoothing loop no animation-frame callback
\* stays scheduled and the displayed heading is never written again.
C3_LoopCancelled ==
  [][phase' = "unmounted" =>
       (rafQueue' = {} /\ (phase = "unmounted" => heading' = heading))]_vars

\* the cleanup ran after a tick had rescheduled the loop and before the
\* effect copied the new heading
C3_Witness ==
  /\ phase = "unmounted"
  /\ rafRef > 1
  /\ rafQueue = {}
  /\ headingRef # heading

\* C4 as stated: once the handler has processed a finite native heading, no
\* later sample without the native field changes targetHeading, on every
\* platform.
C4_NativeStaysAuthoritative ==
  [][\A ty \in EventTypes, ev \in Samples :
       (nativeSeen /\ ~hasWebkit(ev) /\ SensorEvent(ty, ev))
         => targetHeadingRef' = targetHeadingRef]_vars

\* ---------------------------------------------------------------- smoothing
\* the smoother's target and the signed distance of a displayed heading to it
EffTarget == AnimateTarget(targetHeadingRef, offsetDeg)
DeltaTo(h) == shortestAngleDelta(h, EffTarget).v

\* what the claim says of one tick that finds the displayed heading h and
\* leaves h2: a step of 0.15 * d that strictly decreases |d| and keeps its
\* sign when |d| > 0.05, a snap to the target when 0 < |d| <= 0.05, no write
\* when d = 0
TickStep(h, h2) ==
  LET d == DeltaTo(h)
      d2 == DeltaTo(h2)
  IN /\ Abs(d) * 100 > 5 * Scale =>
          /\ h2 = normalize(JsAdd(h, JsMulSmoothing(Num(d))))
          /\ Abs(d2) < Abs(d)
          /\ d * d2 > 0
     /\ (d # 0 /\ Abs(d) * 100 <= 5 * Scale) => h2 = EffTarget
     /\ d = 0 => h2 = h

\* C5 as stated: with targetHeading fixed every tick makes such a step from
\* the displayed heading, also when it reads a headingRef not yet synchronised
\* with the previous setHeading.
C5_TickStepAlways == [][SmoothTick => TickStep(heading, heading')]_vars

\* C5 amended: with targetHeading fixed, every tick that reads a headingRef
\* equal to the displayed heading makes such a step; a tick that reads a
\* headingRef not yet synchronised recomputes from the stale value and writes
\* the heading already displayed, so |d| is unchanged.
C5_TickStepWhenSynced ==
  [][SmoothTick =>
       IF headingRef = heading THEN TickStep(heading, heading')
       ELSE heading' = heading]_vars

\* a tick has snapped the display to the target and the effect has not yet
\* copied it into headingRef
C5_Witness == heading = EffTarget /\ headingRef # heading

\* C6: with the target fixed and ticks firing, the displayed heading eventually
\* equals the smoother's target and every later tick leaves it there, from
\* every starting heading, the opposite one included.
C6_Converges == <>[](heading = EffTarget)

\* the display has reached a target that is no starting heading
C6_Witness ==
  /\ targetHeadingRef = Num(Deg(170)) /\ offsetDeg = Num(0)
  /\ heading = Num(Deg(170)) /\ headingRef = heading

\* ------------------------------------------------------------ projector claims
\* C11 as stated: for every displayed heading h of [0,360), multiples of 45
\* included, the projector's currentBigLabel is the label of the bucket that
\* contains h: [0,45)->6, [45,90)->1, [90,135)->2, [135,180)->3, [180,225)->4,
\* [225,270)->7, [270,315)->5, [315,360)->8; heading 0 gives big 6 and small 6.
C11_BigLabelOfBucket ==
  currentBig # 0 =>
    /\ currentBig = bigLabelForDegree(heading)
    /\ heading = Num(0) => (currentBig = 6 /\ currentSmall = 6)

\* seq rotated so that it starts with label
Rotated(label) == [j \in 1..8 |-> seq[((indexOf(label) + (j - 1)) % 8) + 1]]

\* C12: in every big sector b the 8 sub-slice labels, as drawn and as reported
\* by the projector, are seq rotated to start with bigLabels[b]; every big
\* sector holds each label 1..8 once and the sector labelled 7 holds
\* [7,5,8,6,1,2,3,4].  The reported small label is the one drawn in a sub-slice
\* nearest the top index of the reported big sector.
C12_SubLabelsRotated ==
  /\ drawnSub # <<>> =>
       \A b \in 0..7 :
         /\ drawnSub[b + 1] = Rotated(bigLabels[b + 1])
         /\ { drawnSub[b + 1][j] : j \in 1..8 } = 1..8
         /\ bigLabels[b + 1] = 7 => drawnSub[b + 1] = <<7, 5, 8, 6, 1, 2, 3, 4>>
  /\ currentBig # 0 =>
       \E j \in currentSmallIndexes(heading.v, indexOf(currentBig)) :
         currentSmall = Rotated(currentBig)[j + 1]

\* the sub-labels are drawn and the top index is in the third sub-slice of the
\* big sector labelled 7
C12_Witness ==
  /\ drawnSub # <<>>
  /\ heading = Num(Deg(238))
  /\ currentBig = 7 /\ currentSmall = 8

\* ------------------------------------------------------------ estimator claims
\* the handler of startSensors is registered for events of type ty
Listening(ty) == \E r \in registered : r[1] = ty

\* C13: for every sample with a finite native heading h, on every platform,
\* the handler sets targetHeading to normalize(h), whatever alpha, beta and
\* gamma the sample carries.
C13_NativeTakesPrecedence ==
  [][\A ty \in EventTypes, ev \in Samples :
       (Listening(ty) /\ hasWebkit(ev) /\ SensorEvent(ty, ev))
         => targetHeadingRef' = normalize(ev.webkitCompassHeading)]_vars

\* the sample with native heading 200 and Euler angles (90, 0, 0) was handled
\* on a platform that is not iOS
C13_Witness == ~platform.ios /\ nativeSeen /\ targetHeadingRef = Num(Deg(200))

\* C14: on iOS a sample without a finite webkitCompassHeading leaves
\* targetHeading and the native-seen flag unchanged, whatever its alpha, beta
\* and gamma; on iOS targetHeading changes only through samples with a finite
\* native heading.
C14_IosDiscardsNonNative ==
  [][platform.ios =>
       /\ \A ty \in EventTypes, ev \in Samples :
            ((targetHeadingRef' # targetHeadingRef \/ preferWebkitRef' # preferWebkitRef)
               /\ ~hasWebkit(ev))
              => ~SensorEvent(ty, ev)
       /\ targetHeadingRef' # targetHeadingRef =>
            \E ty \in EventTypes, ev \in Samples : hasWebkit(ev) /\ SensorEvent(ty, ev)]_vars

\* on iOS a native heading of -90 was stored and the flag set
C14_Witness ==
  platform.ios /\ preferWebkitRef /\ targetHeadingRef = Num(Deg(270))

\* a sample with no finite native heading and with alpha, beta or gamma
\* missing or not finite
Malformed(ev) ==
  /\ ~hasWebkit(ev)
  /\ \E x \in {ev.alpha, ev.beta, ev.gamma} : ~IsNumberType(x) \/ ~IsFinite(x)

\* C15 as stated: a malformed sample is discarded; it changes neither
\* targetHeading nor the displayed heading.
C15_MalformedDiscarded ==
  [][\A ty \in EventTypes, ev \in Samples :
       (Malformed(ev) /\ SensorEvent(ty, ev))
         => (targetHeadingRef' = targetHeadingRef /\ heading' = heading)]_vars

\* ------------------------------------------------------ no heading source
\* C16 as stated: if no orientation sample is ever delivered, sensorStatus is
\* never "active" (it is reported as "unavailable") while the smoothing loop
\* keeps running.
C16_NeverActiveWithoutSource == sensorStatus # "active"

\* C17 as stated: if no sample is ever accepted, the displayed heading stays at
\* its default 0 across every smoothing tick, for every stored calibration
\* offset.
C17_DisplayStaysAtDefault == heading = Num(0)

\* ----------------------------------------------------------------- stopping
\* C18 as stated: a second stopSensors call removes nothing and leaves the
\* listener registrations, targetHeading and the displayed heading unchanged,
\* and after the stop no sensor event and no tick changes targetHeading, the
\* native-heading flag or the displayed heading.
C18_StopIdempotent ==
  [][/\ stopSensors => /\ registered' = registered
                       /\ listeners' = listeners
                       /\ targetHeadingRef' = targetHeadingRef
                       /\ heading' = heading
     /\ (/\ phase = "unmounted"
         /\ \/ targetHeadingRef' # targetHeadingRef
            \/ preferWebkitRef' # preferWebkitRef
            \/ heading' # heading)
          => /\ ~ \E ty \in EventTypes, ev \in Samples : SensorEvent(ty, ev)
             /\ ~ \E h \in rafQueue : Tick(h)]_vars

\* ------------------------------------------------------------ meaning panel
\* C19: for every pair of labels the panel looks up the key "big-small"; it
\* shows the table text when the key is present and the empty text otherwise;
\* the key is present exactly when both labels are in 1..7, so every key with
\* label 8 is absent.
C19_MeaningLookup ==
  currentBig # 0 =>
    /\ currentBig \in 1..8 /\ currentSmall \in 1..8
    /\ key = ToString(currentBig) \o "-" \o ToString(currentSmall)
    /\ key \in DOMAIN MEANINGS => (meaning = MEANINGS[key] /\ meaning # "")
    /\ key \notin DOMAIN MEANINGS => meaning = ""
    /\ (key \in DOMAIN MEANINGS) <=> (currentBig \in 1..7 /\ currentSmall \in 1..7)

\* label 8 under a big sector: no meaning
C19_Witness == currentBig = 3 /\ currentSmall = 8 /\ key = "3-8" /\ meaning = ""

\* ------------------------------------------------------------------- slices
RECURSIVE SumOfWidths(_, _)
SumOfWidths(bs, n) == IF n = 0 THEN 0 ELSE (bs[n].a1 - bs[n].a0) + SumOfWidths(bs, n - 1)

\* 45 degrees in the projector's unit
FortyFive == Rot(Deg(45))

\* C20: the 64 slices are 5.625 degrees wide each and their widths sum to 360
\* degrees; the slice boundaries drawn bold are those of every 8th slice, and
\* each lies on a big-sector boundary, a multiple of 45 degrees from the start
\* of slice 0; no other boundary does.
C20_SlicesTile ==
  borders # <<>> =>
    /\ Len(borders) = 64
    /\ \A n \in 1..64 : 1000 * (borders[n].a1 - borders[n].a0) = 5625 * Rot(Deg(1))
    /\ SumOfWidths(borders, 64) = Rot(Deg(360))
    /\ \A n \in 1..64 :
         /\ borders[n].bold <=> (n - 1) % 8 = 0
         /\ borders[n].bold <=> (borders[n].a0 - borders[1].a0) % FortyFive = 0
         /\ borders[n].bold <=>
              \E b \in 0..7 : borders[n].a0 = startAngle(heading.v) + b * bigSlice

\* the dial drawn turned by 100 degrees: slice 8 starts 45 degrees after slice 0
C20_Witness ==
  /\ heading = Num(Deg(100))
  /\ borders # <<>>
  /\ borders[9].bold
  /\ borders[9].a0 - borders[1].a0 = FortyFive

\* ---------------------------------------------------------------- tie-break
\* the lowest index of a non-empty set of indexes
LowestIndex(S) == CHOOSE i \in S : \A k \in S : i <= k

\* the big sectors whose midpoint is nearest the forward angle
NearestBigIndexes(h) == { b \in 0..7 : \A c \in 0..7 : BigDist(h, b) <= BigDist(h, c) }

\* C21 as stated: the projector reports the lowest-index big sector among those
\* whose midpoint is nearest the forward angle, and within it the lowest-index
\* sub-slice among those whose midpoint is nearest.
C21_LowerIndexOnTies ==
  currentBig # 0 =>
    LET b == LowestIndex(NearestBigIndexes(heading.v))
    IN /\ currentBig = bigLabels[b + 1]
       /\ currentSmall = currentSmallLabel(b, LowestIndex(currentSmallIndexes(heading.v, b)))

\* ------------------------------------------------- projector and buckets
\* the displayed heading is exactly on a slice boundary (a multiple of 5.625)
OnSliceBoundary == IsGrid(heading) /\ Rot(heading.v) % slice = 0

\* the projector's labels are those of the bucket functions
LabelsAgree ==
  /\ currentBig = bigLabelForDegree(heading)
  /\ currentSmall = smallLabelForDegree(heading)

\* C22 as stated: for every displayed heading that is not a multiple of 5.625
\* the projector and the bucket functions give the same labels.
C22_AgreeOffBoundaries == (currentBig # 0 /\ ~OnSliceBoundary) => LabelsAgree

\* C22 amended: they give the same labels for every displayed heading that is
\* farther from each slice boundary than the rounding of the two computations,
\* here every grid heading off the boundaries; in the last sub-slice of the
\* first sector that is big label 6 with sub-slice index 7.
C22_AgreeAwayFromBoundaries ==
  (currentBig # 0 /\ IsGrid(heading) /\ ~OnSliceBoundary) =>
    /\ LabelsAgree
    /\ currentBig = seq[(heading.v \div Deg(45)) + 1]
    /\ (heading.v \div Deg(1) = 44 => (currentBig = 6 /\ currentSmall = seq[7 + 1]))

\* one grid step before 45 degrees
C22_Witness ==
  /\ heading = Num(Deg(45) - 1)
  /\ currentBig = 6
  /\ currentSmall = 8
  /\ LabelsAgree

\* ----------------------------------------------------------------- fallback
\* a sample without finite native heading, with a finite alpha, whose beta or
\* gamma is missing or not finite
EulerNotComputable(ev) ==
  /\ ~hasWebkit(ev)
  /\ IsNumberType(ev.alpha) /\ IsFinite(ev.alpha)
  /\ \E x \in {ev.beta, ev.gamma} : ~IsNumberType(x) \/ ~IsFinite(x)

\* C23: on a non-iOS platform such a sample sets targetHeading to
\* normalize(360 - alpha).
C23_FallbackToAlpha ==
  [][\A ty \in EventTypes, ev \in Samples :
       (~platform.ios /\ Listening(ty) /\ EulerNotComputable(ev) /\ SensorEvent(ty, ev))
         => /\ computeHeadingFromEuler(ev) = Null
            /\ targetHeadingRef' = normalize(JsSub(Num(Deg(360)), ev.alpha))]_vars

\* alpha 30 with beta NaN was accepted: 360 - 30
C23_Witness == ~platform.ios /\ ~nativeSeen /\ targetHeadingRef = Num(Deg(330))

\* ------------------------------------------------------------ single writer
\* what neither a sensor event nor a tick writes
RestOfComponent ==
  <<platform, phase, sensorStatus, headingRef, offsetDeg, listeners, nextHandler,
    pendOrient, pendMotion, clicks>>

\* C24: targetHeading is written by sensor events only and the displayed
\* heading by smoothing ticks only; a sensor event leaves the displayed heading
\* and the loop alone and a tick leaves targetHeading, the native-seen flag and
\* the listeners alone.
C24_SingleWriter ==
  [][/\ targetHeadingRef' # targetHeadingRef =>
          \E ty \in EventTypes, ev \in Samples : SensorEvent(ty, ev)
     /\ heading' # heading => \E h \in rafQueue : Tick(h)
     /\ (\/ heading' # heading
         \/ RestOfComponent' # RestOfComponent
         \/ <<rafRef, rafQueue, rafNext>>' # <<rafRef, rafQueue, rafNext>>)
          => ~ \E ty \in EventTypes, ev \in Samples : SensorEvent(ty, ev)
     /\ (\/ targetHeadingRef' # targetHeadingRef
         \/ preferWebkitRef' # preferWebkitRef
         \/ RestOfComponent' # RestOfComponent
         \/ registered' # registered)
          => ~ \E h \in rafQueue : Tick(h)]_vars

\* a sample set the target and a tick has moved the dial part of the way
C24_Witness ==
  /\ offsetDeg = Num(0)
  /\ targetHeadingRef = Num(Deg(200))
  /\ heading # Num(0)
  /\ heading # targetHeadingRef

\* ---------------------------------------------------------------- one loop
\* C25: while the component is mounted exactly one animation-frame callback of
\* the smoothing loop is pending and rafRef holds its handle; none is pending
\* before the mount; every tick replaces the pending callback by one successor.
C25_OneLoop ==
  /\ Cardinality(rafQueue) <= 1
  /\ phase = "rendered" => rafQueue = {}
  /\ phase = "mounted" => rafQueue = {rafRef}

\* two ticks have run and the third frame is pending
C25_Witness == phase = "mounted" /\ rafRef = 3 /\ rafQueue = {3} /\ heading # Num(0)

\* ------------------------------------------------------ calibration offset
\* the displayed heading one tick after h with effective target t
StepTowards(h, t) ==
  LET diff == shortestAngleDelta(h, t)
  IN IF AbsAbove(diff, 5) THEN normalize(JsAdd(h, JsMulSmoothing(diff)))
     ELSE IF AbsAbove(diff, 0) THEN t
     ELSE h

\* C26: every tick steps towards normalize(targetHeading + offset0), a heading
\* of [0, 360), where offset0 is the offset the loop read at the mount; typing
\* another offset changes neither offset0 nor the step of a later tick.
C26_OffsetReadOnce ==
  [][/\ offsetDeg' = offsetDeg
     /\ SmoothTick =>
          LET t0 == normalize(JsAdd(targetHeadingRef, offsetDeg))
          IN /\ InRange(t0)
             /\ heading' = StepTowards(headingRef, t0)]_vars

\* the offset input was changed from the stored -45 to 90 and a tick still
\* snapped the dial to 0 - 45
C26_Witness ==
  /\ offsetDeg = Num(Deg(-45))
  /\ offsetState = Num(Deg(90))
  /\ targetHeadingRef = Num(0)
  /\ headingRef = Num(Deg(315) - 1)
  /\ heading = Num(Deg(315))
  /\ rafRef = 2

\* -------------------------------------------------------- the dial's turn
\* startAngle of the earliest React variant: -Math.PI / 2 + rot
startAngleEarliest(h) == -(Turn \div 4) + Rot(h)

\* startAngle of CompassDialCanvas: -Double.pi / 2 + headingDegrees * .pi / 180
startAngleCompassDialCanvas(h) == -(Turn \div 4) + Rot(h)

\* where each renderer of the repository starts slice 0 at displayed heading h
StartAngles(h) ==
  [current |-> startAngle(h),
   earliest |-> startAngleEarliest(h),
   ios |-> startAngleCompassDialCanvas(h)]

\* C27 as stated: in every renderer slice 0 starts at -90 degrees minus the
\* displayed heading, the top at heading 0.
C27_DialTurnsAgainstHeading ==
  IsGrid(heading) =>
    \A r \in DOMAIN StartAngles(heading.v) :
      StartAngles(heading.v)[r] = Rot(Deg(-90)) - Rot(heading.v)

\* ------------------------------------------------------ last sample wins
\* a sample the estimator accepts on this platform, and its heading candidate
Accepted(ev) ==
  \/ hasWebkit(ev)
  \/ ~platform.ios /\ IsNumberType(ev.alpha) /\ IsFinite(ev.alpha)

Candidate(ev) ==
  IF hasWebkit(ev) THEN ev.webkitCompassHeading
  ELSE IF computeHeadingFromEuler(ev) # Null THEN computeHeadingFromEuler(ev)
  ELSE JsSub(Num(Deg(360)), ev.alpha)

\* C28: a sample delivered by either event type sets targetHeading to its
\* normalized heading candidate when it is accepted and leaves targetHeading
\* as it is when it is rejected; so targetHeading is that of the last accepted
\* sample, and the initial 0 before the first.
C28_LastAcceptedWins ==
  [][\A ty \in EventTypes, ev \in Samples :
       (Listening(ty) /\ SensorEvent(ty, ev)) =>
          targetHeadingRef' = IF Accepted(ev) THEN normalize(Candidate(ev))
                              ELSE targetHeadingRef]_vars

\* 725 degrees of native heading were accepted last
C28_Witness == ~platform.ios /\ nativeSeen /\ targetHeadingRef = Num(Deg(5))

\* ------------------------------------------------------- one handler set
\* C29 as stated: startSensors runs at most once in a session, so each event
\* type has at most one handler on window at any time.
C29_AtMostOneHandler ==
  /\ nextHandler <= 1
  /\ \A ty \in EventTypes : Cardinality({ r \in registered : r[1] = ty }) <= 1

\* -------------------------------------------------------------- flat device
\* an Euler-only sample of a device lying flat
FlatEulerOnly(ev) ==
  /\ ~hasWebkit(ev)
  /\ IsNumberType(ev.alpha) /\ IsGrid(ev.alpha)
  /\ ev.beta = Num(0) /\ ev.gamma = Num(0)

\* C30 as stated: on a non-iOS platform such a sample makes
\* computeHeadingFromEuler return 0 for every alpha, a non-null value, and
\* targetHeading becomes 0.
C30_FlatDeviceHeadingZero ==
  [][\A ty \in EventTypes, ev \in Samples :
       (~platform.ios /\ Listening(ty) /\ FlatEulerOnly(ev) /\ SensorEvent(ty, ev))
         => /\ computeHeadingFromEuler(ev) = Num(0)
            /\ targetHeadingRef' = Num(0)]_vars

====
